---- MODULE Spec2Model ----
(***************************************************************************)
(* Canadian immigration choropleth dashboard (src/app.py).                 *)
(*                                                                         *)
(* The module-level start-up (load shapefile, load CSV, merge, prepare),   *)
(* the two Dash callbacks update_map_and_stats and update_stats_on_click,  *)
(* and the browser-side state they read and write (dropdown values,        *)
(* clickData, the dcc.Store cache, the map figure, the stats panel).       *)
(*                                                                         *)
(* Numbers.  Data values are integers.  A quantile q is carried as the     *)
(* integer 100*q (0, 75, 90, 95, 99), a threshold as 100 times its value,  *)
(* and percent_of_total as the integer 10000 * round(v / total, 4), i.e.   *)
(* in hundredths of a percent, so that all arithmetic is exact.            *)
(***************************************************************************)
EXTENDS Integers, Sequences, FiniteSets, TLC

VARIABLES
    pc,             \* position of the module-level script
    shp_file,       \* the shapefile on disk, until it is read
    csv_file,       \* the CSV on disk, until it is read
    gdf,            \* keys of the loaded GeoDataFrame
    df_csv,         \* rows of the loaded CSV, until the merge
    df_data,        \* merged, prepared rows (immutable while serving)
    geojson_data,   \* feature ids of the GeoJSON given to plotly
    diag,           \* last diagnostic printed by the start-up
    sel,            \* values of the seven dropdowns
    figure,         \* immigration-map.figure
    cached_data,    \* cached-data.data (dcc.Store)
    click_data,     \* immigration-map.clickData
    stats_panel,    \* stats-panel.children
    callback_error  \* the last callback and the exception that left it, if any

vars == <<pc, shp_file, csv_file, gdf, df_csv, df_data, geojson_data, diag,
          sel, figure, cached_data, click_data, stats_panel, callback_error>>

(***************************************************************************)
(* Bounds of the model.                                                    *)
(***************************************************************************)
NumRows == 2          \* rows of the CSV in the lifecycle specification
NumFilterRows == 5    \* rows of the data set in the filter specification
NumPieCols == 3       \* origin-country columns that vary in the click specification
NumOptions == 2       \* options taken of each long dropdown in the resolver specification

(***************************************************************************)
(* Configuration: the column catalog.                                      *)
(***************************************************************************)
shapefile_id_column == "ADAUID"

csv_id_column == "ADAUID"

None == "<None>"

title_column_selector ==
    [x \in {"Immigrant number", "Score", "Quintile", "Weighted Score"} |->
        CASE x = "Immigrant number" -> "immigrant"
          [] x = "Score" -> "Average Score"
          [] x = "Quintile" -> "Average Quintile"
          [] x = "Weighted Score" -> "Population Weighted Score"]

time_periods ==
    <<"T1529", "T1530", "T1531", "T1532", "T1533", "T1534", "T1535", "T1536">>

origin_regions == <<"T1529", "T1545", "T1557", "T1574", "T1585", "T1603">>

\* label -> column, in the dictionary's insertion order
origin_countries ==
    << <<"Brazil", "T1546">>, <<"Colombia", "T1547">>, <<"Haiti", "T1550">>,
       <<"Jamaica", "T1551">>, <<"Mexico", "T1552">>, <<"USA", "T1555">>,
       <<"France", "T1560">>, <<"Germany", "T1561">>, <<"Italy", "T1564">>,
       <<"Poland", "T1566">>, <<"Russia", "T1569">>, <<"Ukraine", "T1571">>,
       <<"UK", "T1572">>, <<"Egypt", "T1577">>, <<"Ethiopia", "T1579">>,
       <<"Morocco", "T1580">>, <<"Nigeria", "T1581">>, <<"Somalia", "T1582">>,
       <<"Afghanistan", "T1586">>, <<"China", "T1592">>, <<"India", "T1599">>,
       <<"Iran", "T1587">>, <<"Lebanon", "T1589">>, <<"Pakistan", "T1600">>,
       <<"Philippines", "T1596">>, <<"Syria", "T1590">> >>

accessibility_modes == <<"Transit_Accessibility", "Walking_Accessibility">>

other_indicators == <<"Average Score", "ESAI-Norm", "IDI_ADA", "RII_ADA">>

trend_periods_ordered ==
    << <<"Before 1980", "T1530">>, <<"1980-1990", "T1531">>,
       <<"1991-2000", "T1532">>, <<"2001-2010", "T1533">>,
       <<"2011-2021", "T1534">> >>

Range(s) == {s[i] : i \in DOMAIN s}

CountryColumns == {origin_countries[i][2] : i \in DOMAIN origin_countries}

\* the options (values) of the seven dropdowns of app.layout
PeriodOptions == Range(time_periods)

RegionOptions == Range(origin_regions)

CountryOptions == CountryColumns \cup {None}

AccessibilityOptions == Range(accessibility_modes) \cup {None}

QuantileOptions == {0, 75, 90, 95, 99}

DataTypeOptions == DOMAIN title_column_selector

OthersOptions == Range(other_indicators) \cup {None}

DefaultSelection ==
    [period |-> "T1529", region |-> "T1529", country |-> None,
     accessibility |-> None, quantile |-> 0,
     data_type |-> "Immigrant number", others |-> None]

(***************************************************************************)
(* Cells of a data frame: a number, NaN, or (in a raw CSV) text.           *)
(***************************************************************************)
NaN == [k |-> "nan", v |-> 0]

Num(x) == [k |-> "num", v |-> x]

Txt == [k |-> "txt", v |-> 0]

notna(c) == c.k # "nan"

\* pd.to_numeric(..., errors='coerce')
to_numeric(c) == IF c.k = "txt" THEN NaN ELSE c

\* the columns the script names when it builds df_data
NamedColumns ==
    {"PRNAME", "CSDNAME", "Average Score", "Average Quintile",
     "Population Weighted Score", "ESAI-Norm", "IDI_ADA", "RII_ADA"}

TextColumns == {"PRNAME", "CSDNAME"}

\* col.startswith('T') or col.startswith('Transit') or col.startswith('Walking'),
\* over the column names of the catalog
is_t_col(col) ==
    col \in PeriodOptions \cup RegionOptions \cup CountryColumns
                \cup Range(accessibility_modes)

(***************************************************************************)
(* Join keys.  A raw key is an integer or a string; astype(str) gives the  *)
(* string form of either.                                                  *)
(***************************************************************************)
KeyTypes == {"int", "str"}

RawKey(t, n) == [t |-> t, n |-> n]

astype_str(key) == [t |-> "str", n |-> key.n]

ColumnsOf(df) == IF Len(df) = 0 THEN {} ELSE DOMAIN df[1]

SetCell(row, col, val) ==
    [c \in DOMAIN row \cup {col} |-> IF c = col THEN val ELSE row[c]]

RECURSIVE SelectRows(_, _)
\* df[mask]: the rows of df at the positions in keep, in order
SelectRows(df, keep) ==
    IF Len(df) = 0 THEN <<>>
    ELSE LET rest == SelectRows(Tail(df), {i - 1 : i \in keep \ {1}})
         IN IF 1 \in keep THEN <<Head(df)>> \o rest ELSE rest

Column(df, col) == [i \in DOMAIN df |-> df[i][col]]

(***************************************************************************)
(* Start-up: the module-level script, lines 22-170 and 641-645.            *)
(***************************************************************************)
NoError == "none"

\* outcome of the last callback: which one ran, and the exception that left it
Outcome(callback, raised) == [callback |-> callback, raised |-> raised]

NoFigure ==
    [kind |-> "none", title |-> "", color |-> None, locations |-> <<>>,
     customdata |-> <<>>, range_max |-> 0]

NoCache == [present |-> FALSE, rows |-> <<>>]

NoClick == [present |-> FALSE, has_points |-> FALSE, points |-> <<>>]

NoPanel ==
    [kind |-> "none", text |-> "", pie |-> "none", pie_labels |-> <<>>,
     pie_values |-> <<>>, trend |-> "none", trend_labels |-> <<>>,
     trend_values |-> <<>>]

\* gpd.read_file and the key coercion
read_shapefile(file) == [i \in DOMAIN file.keys |-> astype_str(file.keys[i])]

\* pd.read_csv and the key coercion
read_csv(file) ==
    [i \in DOMAIN file.rows |->
        SetCell(file.rows[i], csv_id_column, astype_str(file.rows[i][csv_id_column]))]

RECURSIVE merge(_, _)
\* gdf.merge(df_csv, left_on=ADAUID, right_on=ADAUID, how="inner")
merge(left, right) ==
    IF Len(left) = 0 THEN <<>>
    ELSE SelectRows(right, {j \in DOMAIN right : right[j][csv_id_column] = Head(left)})
            \o merge(Tail(left), right)

\* t_cols coerced to numeric, then the projection onto the columns of df_data
prepare(merged) ==
    LET cols == ColumnsOf(merged)
        kept == {c \in cols : c = shapefile_id_column \/ c \in NamedColumns \/ is_t_col(c)}
    IN [i \in DOMAIN merged |->
           [c \in kept |-> IF is_t_col(c) THEN to_numeric(merged[i][c])
                           ELSE merged[i][c]]]

\* Each file is read once: after the read the model keeps of the file only
\* whether it was readable, and of df_csv, which nothing reads after the
\* merge, nothing.
Consumed(file) == [readable |-> file.readable]

LoadShapefile ==
    /\ pc = "load_shp"
    /\ shp_file' = Consumed(shp_file)
    /\ IF shp_file.readable
       THEN /\ gdf' = read_shapefile(shp_file)
            /\ pc' = "load_csv"
            /\ diag' = diag
       ELSE /\ diag' = "Error loading shapefile"
            /\ pc' = "exited"
            /\ gdf' = gdf
    /\ UNCHANGED <<csv_file, df_csv, df_data, geojson_data, sel, figure,
                   cached_data, click_data, stats_panel, callback_error>>

LoadCsv ==
    /\ pc = "load_csv"
    /\ csv_file' = Consumed(csv_file)
    /\ IF csv_file.readable
       THEN /\ df_csv' = read_csv(csv_file)
            /\ pc' = "merge"
            /\ diag' = diag
       ELSE /\ diag' = "Error loading CSV file"
            /\ pc' = "exited"
            /\ df_csv' = df_csv
    /\ UNCHANGED <<shp_file, gdf, df_data, geojson_data, sel, figure,
                   cached_data, click_data, stats_panel, callback_error>>

\* as Merge, without the exit on an empty result
Merge_without_exit ==
    /\ pc = "merge"
    /\ df_data' = merge(gdf, df_csv)
    /\ pc' = "prepare"
    /\ gdf' = <<>>
    /\ df_csv' = <<>>
    /\ UNCHANGED <<shp_file, csv_file, geojson_data, diag, sel, figure,
                   cached_data, click_data, stats_panel, callback_error>>

\* lines 53-59: the merge; gdf is deleted, and an empty result ends the process
Merge ==
    /\ pc = "merge"
    /\ LET gdf_merged == merge(gdf, df_csv)
       IN /\ df_data' = gdf_merged
          /\ IF Len(gdf_merged) = 0
             THEN /\ diag' = "Error: Merge resulted in zero matching regions. Check if IDs match."
                  /\ pc' = "exited"
             ELSE /\ diag' = diag
                  /\ pc' = "prepare"
    /\ gdf' = <<>>
    /\ df_csv' = <<>>
    /\ UNCHANGED <<shp_file, csv_file, geojson_data, sel, figure,
                   cached_data, click_data, stats_panel, callback_error>>

\* lines 61-170 and 641-645: numeric columns, GeoJSON, df_data, the Dash app, app.run.
\* Line 81 raises KeyError when the CSV lacks one of the columns it names.
Prepare ==
    /\ pc = "prepare"
    /\ IF NamedColumns \subseteq ColumnsOf(df_data)
       THEN /\ df_data' = prepare(df_data)
            /\ geojson_data' = Range(Column(df_data, shapefile_id_column))
            /\ pc' = "serving"
       ELSE /\ pc' = "crashed"
            /\ UNCHANGED <<df_data, geojson_data>>
    /\ UNCHANGED <<shp_file, csv_file, gdf, df_csv, diag, sel, figure,
                   cached_data, click_data, stats_panel, callback_error>>
(***************************************************************************)
(* update_map_and_stats, lines 387-491.                                    *)
(***************************************************************************)
\* Python truthiness of a dropdown value
truthy(x) == x # None /\ x # ""

\* as resolve_column, with the other-indicator tested before the country
resolve_column_others_first(s) ==
    IF s.data_type # "Immigrant number"
    THEN [data_column |-> title_column_selector[s.data_type],
          map_title |-> s.data_type \o " by ADA"]
    ELSE LET col == IF truthy(s.others) THEN s.others
                    ELSE IF truthy(s.country) THEN s.country
                    ELSE IF s.region # "T1529" THEN s.region
                    ELSE IF truthy(s.accessibility) THEN s.accessibility
                    ELSE s.period
         IN [data_column |-> col, map_title |-> "Immigration by " \o col]

\* lines 391-405: the column to show and the map title
resolve_column(s) ==
    IF s.data_type # "Immigrant number"
    THEN [data_column |-> title_column_selector[s.data_type],
          map_title |-> s.data_type \o " by ADA"]
    ELSE LET col == IF truthy(s.country) THEN s.country
                    ELSE IF truthy(s.others) THEN s.others
                    ELSE IF s.region # "T1529" THEN s.region
                    ELSE IF truthy(s.accessibility) THEN s.accessibility
                    ELSE s.period
         IN [data_column |-> col, map_title |-> "Immigration by " \o col]

RECURSIVE Insert(_, _)
Insert(x, sorted) ==
    IF Len(sorted) = 0 THEN <<x>>
    ELSE IF x <= Head(sorted) THEN <<x>> \o sorted
    ELSE <<Head(sorted)>> \o Insert(x, Tail(sorted))

RECURSIVE Sort(_)
Sort(xs) == IF Len(xs) = 0 THEN <<>> ELSE Insert(Head(xs), Sort(Tail(xs)))

RECURSIVE Sum(_)
Sum(xs) == IF Len(xs) = 0 THEN 0 ELSE Head(xs) + Sum(Tail(xs))

Values(cells) == [i \in DOMAIN cells |-> cells[i].v]

\* Series.quantile(q) with linear interpolation, q given as 100*q; the result is
\* 100 times the quantile, NaN for an empty series
quantile(cells, q) ==
    LET n == Len(cells)
        sorted == Sort(Values(cells))
        pos == (n - 1) * q
        i == pos \div 100
        frac == pos % 100
        lo == sorted[i + 1]
        hi == sorted[IF i + 2 <= n THEN i + 2 ELSE n]
    IN IF n = 0 THEN NaN ELSE Num(100 * lo + frac * (hi - lo))

\* lines 407-409: drop missing rows, threshold at the quantile, keep value >= threshold
full_data_of(df, data_column) ==
    SelectRows(df, {i \in DOMAIN df : notna(df[i][data_column])})

\* as keep_rows, keeping the rows at or below the threshold
keep_rows_below(full_data, data_column, threshold) ==
    SelectRows(full_data,
               {i \in DOMAIN full_data :
                    /\ notna(threshold)
                    /\ 100 * full_data[i][data_column].v <= threshold.v})

\* as keep_rows, keeping only the rows strictly above the threshold
keep_rows_above(full_data, data_column, threshold) ==
    SelectRows(full_data,
               {i \in DOMAIN full_data :
                    /\ notna(threshold)
                    /\ 100 * full_data[i][data_column].v > threshold.v})

keep_rows(full_data, data_column, threshold) ==
    SelectRows(full_data,
               {i \in DOMAIN full_data :
                    /\ notna(threshold)
                    /\ 100 * full_data[i][data_column].v >= threshold.v})

filter_rows(df, data_column, q) ==
    LET full_data == full_data_of(df, data_column)
    IN keep_rows(full_data, data_column, quantile(Column(full_data, data_column), q))

\* round(n / d, 4) * 10000 for d > 0, ties to even
round4(n, d) ==
    LET scaled == n * 10000
        fl == scaled \div d
        rem == scaled % d
    IN IF 2 * rem < d THEN fl
       ELSE IF 2 * rem > d THEN fl + 1
       ELSE IF fl % 2 = 0 THEN fl ELSE fl + 1

\* as percent_of_total, truncating instead of rounding
percent_of_total_truncated(value, total_immigrants) ==
    IF total_immigrants > 0 THEN (value * 10000) \div total_immigrants ELSE 0

\* as percent_of_total, rounding the share to 2 decimals instead of 4
percent_of_total_round2(value, total_immigrants) ==
    IF total_immigrants > 0
    THEN 100 * (((value * 200) + total_immigrants) \div (2 * total_immigrants))
    ELSE 0

\* lines 420-424: percent_of_total, in hundredths of a percent
percent_of_total(value, total_immigrants) ==
    IF total_immigrants > 0 THEN round4(value, total_immigrants) ELSE 0

with_percent(df_plot, data_column) ==
    LET total_immigrants == Sum(Values(Column(df_plot, data_column)))
    IN [i \in DOMAIN df_plot |->
           SetCell(df_plot[i], "percent_of_total",
                   Num(percent_of_total(df_plot[i][data_column].v, total_immigrants)))]

\* lines 414-416: upper end of the colour range, times 100
max_value_of(df_plot, data_column) ==
    LET q99 == quantile(Column(df_plot, data_column), 99).v
    IN IF q99 <= 0 THEN 100 * Sort(Values(Column(df_plot, data_column)))[Len(df_plot)]
       ELSE q99

custom_data ==
    <<"PRNAME", "CSDNAME", "ADAUID", "T1529", "percent_of_total",
      "Average Quintile", "Average Score">>

Placeholder(title) ==
    [kind |-> "placeholder", title |-> title, color |-> None, locations |-> <<>>,
     customdata |-> <<>>, range_max |-> 0]

\* lines 427-486: px.choropleth raises ValueError when a custom_data column is
\* not a column of the frame
choropleth(df_plot, data_column, max_value, map_title) ==
    IF Range(custom_data) \subseteq ColumnsOf(df_plot)
    THEN [raised |-> NoError,
          fig |-> [kind |-> "choropleth", title |-> map_title, color |-> data_column,
                   locations |-> Column(df_plot, shapefile_id_column),
                   customdata |-> [i \in DOMAIN df_plot |->
                                      [j \in DOMAIN custom_data |-> df_plot[i][custom_data[j]]]],
                   range_max |-> max_value]]
    ELSE [raised |-> "ValueError", fig |-> NoFigure]

\* as Cache, storing the records of df_data instead of the rows kept
Cache_unfiltered(rows) == [present |-> TRUE, rows |-> df_data]

Cache(rows) == [present |-> TRUE, rows |-> rows]

\* the callback: what it returns, or the exception that leaves it
update_map_and_stats(df, s) ==
    LET r == resolve_column(s)
        data_column == r.data_column
    IN IF data_column \notin ColumnsOf(df)
       THEN [raised |-> "KeyError", fig |-> NoFigure, cache |-> NoCache]
       ELSE LET df_kept == filter_rows(df, data_column, s.quantile)
            IN IF Len(df_kept) = 0
               THEN [raised |-> NoError, fig |-> Placeholder("No Data Available"),
                     cache |-> NoCache]
               ELSE LET df_plot == with_percent(df_kept, data_column)
                        drawn == choropleth(df_plot, data_column,
                                            max_value_of(df_plot, data_column),
                                            r.map_title)
                    IN IF drawn.raised # NoError
                       THEN [raised |-> NoError,
                             fig |-> Placeholder("Error: " \o drawn.raised),
                             cache |-> NoCache]
                       ELSE [raised |-> NoError, fig |-> drawn.fig,
                             cache |-> Cache(df_plot)]

\* Dash applies the outputs of a callback that returned, and leaves them as
\* they were when the callback raised
Callback_update_map_and_stats(s) ==
    LET out == update_map_and_stats(df_data, s)
    IN /\ pc = "serving"
       /\ sel' = s
       /\ callback_error' = Outcome("update_map_and_stats", out.raised)
       /\ IF out.raised = NoError
          THEN figure' = out.fig /\ cached_data' = out.cache
          ELSE UNCHANGED <<figure, cached_data>>
       /\ UNCHANGED <<pc, shp_file, csv_file, gdf, df_csv, df_data, geojson_data,
                      diag, click_data, stats_panel>>
(***************************************************************************)
(* update_stats_on_click, lines 499-632.                                   *)
(***************************************************************************)
\* dict.get(col_name, 0)
Get(record, col_name) == IF col_name \in DOMAIN record THEN record[col_name] ELSE Num(0)

\* pd.notna(value) and value > 0
positive(c) == notna(c) /\ c.v > 0

\* as pie_slices, plotting a country on its own from a share of exactly 2%
pie_slices_from_2_percent(record) ==
    LET origin_pie_data ==
            [i \in DOMAIN origin_countries |->
                [label |-> origin_countries[i][1],
                 value |-> Get(record, origin_countries[i][2])]]
        IsPositive(it) == positive(it.value)
        present == SelectSeq(origin_pie_data, IsPositive)
        total_origin_sum == Sum([i \in DOMAIN present |-> present[i].value.v])
        Large(it) == it.value.v * 100 >= 2 * total_origin_sum
        Small(it) == ~Large(it)
        plotted == SelectSeq(present, Large)
        small == SelectSeq(present, Small)
        others_sum == Sum([i \in DOMAIN small |-> small[i].value.v])
        labels == [i \in DOMAIN plotted |-> plotted[i].label]
        values == [i \in DOMAIN plotted |-> plotted[i].value.v]
    IN IF total_origin_sum > 0
       THEN IF others_sum > 0
            THEN [labels |-> Append(labels, "Others (<2%)"),
                  values |-> Append(values, others_sum)]
            ELSE [labels |-> labels, values |-> values]
       ELSE [labels |-> <<>>, values |-> <<>>]

\* lines 536-560: the slices of the pie of one region record
pie_slices(record) ==
    LET origin_pie_data ==
            [i \in DOMAIN origin_countries |->
                [label |-> origin_countries[i][1],
                 value |-> Get(record, origin_countries[i][2])]]
        IsPositive(it) == positive(it.value)
        present == SelectSeq(origin_pie_data, IsPositive)
        total_origin_sum == Sum([i \in DOMAIN present |-> present[i].value.v])
        Large(it) == it.value.v * 100 > 2 * total_origin_sum
        Small(it) == ~Large(it)
        plotted == SelectSeq(present, Large)
        small == SelectSeq(present, Small)
        others_sum == Sum([i \in DOMAIN small |-> small[i].value.v])
        labels == [i \in DOMAIN plotted |-> plotted[i].label]
        values == [i \in DOMAIN plotted |-> plotted[i].value.v]
    IN IF total_origin_sum > 0
       THEN IF others_sum > 0
            THEN [labels |-> Append(labels, "Others (<2%)"),
                  values |-> Append(values, others_sum)]
            ELSE [labels |-> labels, values |-> values]
       ELSE [labels |-> <<>>, values |-> <<>>]

\* as trend_series, leaving out the periods whose value is missing
trend_series_skipping(record) ==
    LET Present(period) == notna(Get(record, period[2]))
        kept == SelectSeq(trend_periods_ordered, Present)
    IN [labels |-> [i \in DOMAIN kept |-> kept[i][1]],
        values |-> [i \in DOMAIN kept |-> Get(record, kept[i][2]).v]]

\* lines 589-607: the five periods of the trend, 0 for a missing value
trend_series(record) ==
    [labels |-> [i \in DOMAIN trend_periods_ordered |-> trend_periods_ordered[i][1]],
     values |-> [i \in DOMAIN trend_periods_ordered |->
                    LET value == Get(record, trend_periods_ordered[i][2])
                    IN IF notna(value) THEN value.v ELSE 0]]

\* as trend_has_data, with any(v != 0 for v in trend_values)
trend_has_data_nonzero(trend_values) == \E i \in DOMAIN trend_values : trend_values[i] # 0

\* line 609: any(v > 0 for v in trend_values)
trend_has_data(trend_values) == \E i \in DOMAIN trend_values : trend_values[i] > 0

\* lines 527-532: the first cached record of the clicked region, if any
find_region(rows, region_id) ==
    LET hits == {i \in DOMAIN rows : rows[i][shapefile_id_column] = region_id}
    IN IF hits = {} THEN 0 ELSE CHOOSE i \in hits : \A j \in hits : i <= j

Guidance(text) ==
    [kind |-> "guidance", text |-> text, pie |-> "none", pie_labels |-> <<>>,
     pie_values |-> <<>>, trend |-> "none", trend_labels |-> <<>>,
     trend_values |-> <<>>]

\* lines 535-630 for the record found (index > 0) or not found (index 0)
details(rows, index) ==
    IF index = 0
    THEN [kind |-> "details", text |-> "Selected Region",
          pie |-> "Region data not found in cache for pie chart.",
          pie_labels |-> <<>>, pie_values |-> <<>>,
          trend |-> "Region data not found in cache for trend chart.",
          trend_labels |-> <<>>, trend_values |-> <<>>]
    ELSE LET slices == pie_slices(rows[index])
             series == trend_series(rows[index])
             pie_ok == Sum(slices.values) > 0
             trend_ok == trend_has_data(series.values)
         IN [kind |-> "details", text |-> "Selected Region",
             pie |-> IF pie_ok THEN "chart"
                     ELSE "No detailed country of origin data available for this region.",
             pie_labels |-> IF pie_ok THEN slices.labels ELSE <<>>,
             pie_values |-> IF pie_ok THEN slices.values ELSE <<>>,
             trend |-> IF trend_ok THEN "chart"
                       ELSE "No time trend data available for this region.",
             trend_labels |-> IF trend_ok THEN series.labels ELSE <<>>,
             trend_values |-> IF trend_ok THEN series.values ELSE <<>>]

\* a customdata entry the f-strings of lines 520-523 can format as a number
formattable(entry) == entry.k = "num"

\* the callback: the panel it returns, or the exception that leaves it
update_stats_on_click(click, cache) ==
    IF ~click.present \/ ~cache.present \/ Len(cache.rows) = 0
    THEN [raised |-> NoError, panel |-> Guidance("Click on a region to see details.")]
    ELSE IF ~click.has_points
    THEN [raised |-> "KeyError", panel |-> NoPanel]
    ELSE IF Len(click.points) = 0
    THEN [raised |-> "IndexError", panel |-> NoPanel]
    ELSE LET point == click.points[1]
         IN IF ~point.has_customdata \/ Len(point.customdata) < 7
            THEN [raised |-> NoError,
                  panel |-> Guidance("Click on a region to see details (customdata issue).")]
            ELSE IF \E j \in {4, 5, 7} : ~formattable(point.customdata[j])
            THEN [raised |-> "TypeError", panel |-> NoPanel]
            ELSE IF ~point.has_location
            THEN [raised |-> "KeyError", panel |-> NoPanel]
            ELSE [raised |-> NoError,
                  panel |-> details(cache.rows, find_region(cache.rows, point.location))]

Callback_update_stats_on_click(click) ==
    LET out == update_stats_on_click(click, cached_data)
    IN /\ pc = "serving"
       /\ click_data' = click
       /\ callback_error' = Outcome("update_stats_on_click", out.raised)
       /\ IF out.raised = NoError
          THEN stats_panel' = out.panel
          ELSE UNCHANGED stats_panel
       /\ UNCHANGED <<pc, shp_file, csv_file, gdf, df_csv, df_data, geojson_data,
                      diag, sel, figure, cached_data>>
(***************************************************************************)
(* The files on disk: bounded families of inputs.                          *)
(***************************************************************************)
RECURSIVE SetToSeq(_)
\* the elements of a set of integers, ascending
SetToSeq(S) ==
    IF S = {} THEN <<>>
    ELSE LET m == CHOOSE x \in S : \A y \in S : x <= y
         IN <<m>> \o SetToSeq(S \ {m})

UnreadableShp == [readable |-> FALSE, keys |-> <<>>]

Shapefile(key_type, ids) ==
    [readable |-> TRUE,
     keys |-> [i \in DOMAIN SetToSeq(ids) |-> RawKey(key_type, SetToSeq(ids)[i])]]

UnreadableCsv == [readable |-> FALSE, rows |-> <<>>]

\* a CSV row: the key, the two name columns, and cell[col] in every other column
CsvRow(key_type, id, columns, cell) ==
    [c \in columns \cup {csv_id_column} |->
        IF c = csv_id_column THEN RawKey(key_type, id)
        ELSE IF c \in TextColumns THEN "name"
        ELSE cell[c]]

\* the same cell in every numeric column; text only where the script coerces it
UniformCells(columns, c) ==
    [col \in columns |-> IF is_t_col(col) THEN c ELSE to_numeric(c)]

UniformCsv(key_type, columns, cells) ==
    [readable |-> TRUE,
     rows |-> [i \in DOMAIN cells |->
                  CsvRow(key_type, i, columns, UniformCells(columns, cells[i]))]]

\* lifecycle family: CSVs with the named columns, the total and one country,
\* and CSVs that lack one of these
LifeColumns == NamedColumns \cup {"T1529", "T1546"}

LifeColumnSets ==
    {LifeColumns, LifeColumns \ {"T1546"}, LifeColumns \ {"T1529"},
     LifeColumns \ {"RII_ADA"}}

LifeCells == {NaN, Num(0), Num(2), Txt}

LifeShpFiles ==
    {UnreadableShp} \cup
        {Shapefile(t, ids) : t \in KeyTypes, ids \in SUBSET (1..NumRows)}

LifeCsvFiles ==
    {UnreadableCsv} \cup
        {UniformCsv(t, cols, cells) :
            t \in KeyTypes, cols \in LifeColumnSets,
            cells \in [1..NumRows -> LifeCells]}

Starting(shp, csv) ==
    /\ pc = "load_shp"
    /\ shp_file = shp
    /\ csv_file = csv
    /\ gdf = <<>>
    /\ df_csv = <<>>
    /\ df_data = <<>>
    /\ geojson_data = {}
    /\ diag = ""
    /\ sel = DefaultSelection
    /\ figure = NoFigure
    /\ cached_data = NoCache
    /\ click_data = NoClick
    /\ stats_panel = NoPanel
    /\ callback_error = Outcome("none", NoError)

\* the state in which a start-up from readable, matching files ends
Serving(shp, csv, s) ==
    LET merged == merge(read_shapefile(shp), read_csv(csv))
    IN /\ pc = "serving"
       /\ shp_file = Consumed(shp)
       /\ csv_file = Consumed(csv)
       /\ gdf = <<>>
       /\ df_csv = <<>>
       /\ df_data = prepare(merged)
       /\ geojson_data = Range(Column(merged, shapefile_id_column))
       /\ diag = ""
       /\ sel = s
       /\ figure = NoFigure
       /\ cached_data = NoCache
       /\ click_data = NoClick
       /\ stats_panel = NoPanel
       /\ callback_error = Outcome("none", NoError)

(***************************************************************************)
(* The user: dropdown changes and map clicks.                              *)
(***************************************************************************)
\* the first call on page load and a later change of the dropdown
ChangeQuantile ==
    \E q \in QuantileOptions :
        Callback_update_map_and_stats([sel EXCEPT !.quantile = q])

LifeCountryOptions == {None, "T1546"}

ChangeCountry ==
    \E c \in LifeCountryOptions :
        Callback_update_map_and_stats([sel EXCEPT !.country = c])

\* the clickData plotly sends for the i-th region drawn on the map
PointOf(fig, i) ==
    [has_customdata |-> TRUE, customdata |-> fig.customdata[i],
     has_location |-> TRUE, location |-> fig.locations[i]]

ClickOn(points) == [present |-> TRUE, has_points |-> TRUE, points |-> points]

ClickRegion ==
    \E i \in DOMAIN figure.locations :
        Callback_update_stats_on_click(ClickOn(<<PointOf(figure, i)>>))

SamplePoint ==
    [has_customdata |-> TRUE,
     customdata |-> <<"name", "name", RawKey("str", 1), Num(2), Num(10000), Num(2), Num(2)>>,
     has_location |-> TRUE, location |-> RawKey("str", 1)]

\* payloads no click on the map produces
MalformedClicks ==
    {NoClick,
     [present |-> TRUE, has_points |-> FALSE, points |-> <<>>],
     ClickOn(<<>>),
     ClickOn(<<[SamplePoint EXCEPT !.has_customdata = FALSE, !.customdata = <<>>]>>),
     ClickOn(<<[SamplePoint EXCEPT !.customdata = SubSeq(SamplePoint.customdata, 1, 3)]>>),
     ClickOn(<<[SamplePoint EXCEPT !.customdata[4] = NaN]>>),
     ClickOn(<<[SamplePoint EXCEPT !.customdata[7] = Txt]>>)}

ClickMalformed ==
    \E click \in MalformedClicks : Callback_update_stats_on_click(click)

(***************************************************************************)
(* Lifecycle specification: start-up, then dropdown changes and clicks.    *)
(***************************************************************************)
Init == \E shp \in LifeShpFiles, csv \in LifeCsvFiles : Starting(shp, csv)

Next ==
    \/ LoadShapefile
    \/ LoadCsv
    \/ Merge
    \/ Prepare
    \/ ChangeQuantile
    \/ ChangeCountry
    \/ ClickRegion
    \/ ClickMalformed

Spec == Init /\ [][Next]_vars

(***************************************************************************)
(* Resolver specification: the first call of update_map_and_stats under    *)
(* every combination of dropdown values, over two data sets that differ    *)
(* only in the contents of their columns.                                  *)
(***************************************************************************)
\* the first NumOptions entries of a list of options
FirstOptions(list) ==
    {list[i] : i \in {j \in DOMAIN list : j <= NumOptions}}

ResolvePeriods == FirstOptions(time_periods)

ResolveRegions == FirstOptions(origin_regions)

ResolveCountries ==
    FirstOptions([i \in DOMAIN origin_countries |-> origin_countries[i][2]]) \cup {None}

ResolveOthers == FirstOptions(other_indicators) \cup {None}

AllSelections ==
    [period : ResolvePeriods, region : ResolveRegions, country : ResolveCountries,
     accessibility : AccessibilityOptions, quantile : QuantileOptions,
     data_type : DataTypeOptions, others : ResolveOthers]

\* the columns these selections can name, and those every CSV must hold
ResolveColumns ==
    NamedColumns \cup {"T1529"} \cup ResolvePeriods \cup ResolveRegions
        \cup (ResolveCountries \ {None}) \cup Range(accessibility_modes)

ResolveCells == {Num(1), Num(3)}

\* the callback runs with the dropdown values as they stand (page load)
PageLoad ==
    /\ figure.kind = "none"
    /\ Callback_update_map_and_stats(sel)

InitResolve ==
    \E s \in AllSelections, c \in ResolveCells :
        Serving(Shapefile("str", {1}), UniformCsv("int", ResolveColumns, <<c>>), s)

NextResolve == PageLoad

SpecResolve == InitResolve /\ [][NextResolve]_vars

(***************************************************************************)
(* Filter specification: every data set of NumFilterRows rows over         *)
(* FilterCells, and the quantile dropdown.                                 *)
(***************************************************************************)
FilterColumns == NamedColumns \cup {"T1529"}

FilterCells == {NaN, Num(-1), Num(2), Num(5)}

InitFilter ==
    \E cells \in [1..NumFilterRows -> FilterCells] :
        Serving(Shapefile("str", 1..NumFilterRows),
                UniformCsv("str", FilterColumns, cells), DefaultSelection)

NextFilter == ChangeQuantile

SpecFilter == InitFilter /\ [][NextFilter]_vars

(***************************************************************************)
(* Click specification: two regions; the first one's origin-country        *)
(* columns, or its trend columns, take every combination of values, and a  *)
(* trend column may be absent from the CSV.                                *)
(***************************************************************************)
PieColumns == {origin_countries[i][2] : i \in 1..NumPieCols}

PieCells == {NaN, Num(-1), Num(0), Num(1), Num(49), Num(50)}

TrendColumns == {trend_periods_ordered[i][2] : i \in DOMAIN trend_periods_ordered}

TrendCells == {NaN, Num(-1), Num(0), Num(2)}

\* row 1 holds given[c] in the columns of given, and 1 elsewhere; row 2 holds 1
ClickCsv(given) ==
    LET columns == FilterColumns \cup DOMAIN given
    IN [readable |-> TRUE,
        rows |-> << CsvRow("str", 1, columns,
                           [c \in columns |-> IF c \in DOMAIN given THEN given[c]
                                              ELSE Num(1)]),
                    CsvRow("str", 2, columns, [c \in columns |-> Num(1)]) >>]

ClickCsvFiles ==
    {ClickCsv(given) : given \in [PieColumns -> PieCells]}
        \cup UNION {{ClickCsv(given) : given \in [present -> TrendCells]} :
                        present \in SUBSET TrendColumns}

InitClick ==
    \E csv \in ClickCsvFiles :
        Serving(Shapefile("str", {1, 2}), csv, DefaultSelection)

NextClick ==
    \/ PageLoad
    \/ ClickRegion

SpecClick == InitClick /\ [][NextClick]_vars
(***************************************************************************)
(* Properties.                                                             *)
(***************************************************************************)
Ids(rows) == {rows[i][shapefile_id_column] : i \in DOMAIN rows}

LastCallback(name) == callback_error.callback = name

\* the row of df_data for a region, or 0
RowOf(region_id) == find_region(df_data, region_id)

ClickedRow == RowOf(click_data.points[1].location)

(* C1: in the resolver specification, whenever the first call has drawn the
   map, the column it shows is the one first-match precedence gives from the
   dropdown values alone: the data type's column (title "<data-type> by ADA")
   when the data type is not "Immigrant number"; else the country; else the
   other indicator; else the region unless it is T1529; else the
   accessibility mode; else the period (title "Immigration by <column>"). *)
ResolverPrecedence ==
    figure.kind = "choropleth" =>
        /\ sel.data_type # "Immigrant number" =>
                /\ figure.color = title_column_selector[sel.data_type]
                /\ figure.title = sel.data_type \o " by ADA"
        /\ sel.data_type = "Immigrant number" =>
                /\ figure.title = "Immigration by " \o figure.color
                /\ sel.country # None => figure.color = sel.country
                /\ sel.country = None /\ sel.others # None =>
                        figure.color = sel.others
                /\ sel.country = None /\ sel.others = None /\ sel.region # "T1529" =>
                        figure.color = sel.region
                /\ /\ sel.country = None /\ sel.others = None
                   /\ sel.region = "T1529" /\ sel.accessibility # None
                   => figure.color = sel.accessibility
                /\ /\ sel.country = None /\ sel.others = None
                   /\ sel.region = "T1529" /\ sel.accessibility = None
                   => figure.color = sel.period

\* a country chosen together with a region, an indicator and a mode: the country wins
ResolverPrecedenceWitness ==
    /\ figure.kind = "choropleth"
    /\ sel.data_type = "Immigrant number"
    /\ sel.country # None /\ sel.others # None
    /\ sel.region # "T1529" /\ sel.accessibility # None
    /\ figure.color = sel.country

\* the rows of df that pass the filter of selection s: value present and at or
\* above the value at the quantile
PassingIds(df, s) ==
    LET col == resolve_column(s).data_column
        have == {i \in DOMAIN df : notna(df[i][col])}
        thr == quantile(Column(SelectRows(df, have), col), s.quantile)
    IN IF col \notin ColumnsOf(df) THEN {}
       ELSE {df[i][shapefile_id_column] : i \in {j \in have : 100 * df[j][col].v >= thr.v}}

(* C2: after every run of update_map_and_stats the cache holds exactly the
   rows that pass the current filter (nothing when the map is a placeholder),
   and no click changes the cache. *)
CacheReplacedWholesale ==
    /\ [](LastCallback("update_map_and_stats") =>
            IF figure.kind = "choropleth"
            THEN Ids(cached_data.rows) = PassingIds(df_data, sel)
            ELSE cached_data = NoCache)
    /\ [][click_data' # click_data \/ stats_panel' # stats_panel
            => cached_data' = cached_data]_vars

\* a failure in the stages of update_map_and_stats: the resolved column or a
\* custom_data column is not a column of df_data
StageFails(df, s) ==
    \/ resolve_column(s).data_column \notin ColumnsOf(df)
    \/ /\ PassingIds(df, s) # {}
       /\ ~(Range(custom_data) \subseteq ColumnsOf(df) \cup {"percent_of_total"})

(* C3: no exception leaves update_map_and_stats; a failure in one of its
   stages ends in the placeholder map "Error: <message>" and an empty cache. *)
MapFailuresCaught ==
    LastCallback("update_map_and_stats") =>
        /\ callback_error.raised = NoError
        /\ StageFails(df_data, sel) =>
                /\ figure.kind = "placeholder"
                /\ figure.title \in {"Error: KeyError", "Error: ValueError"}
                /\ cached_data = NoCache

\* the payloads C4 lists
Malformed(click, cache) ==
    \/ ~click.present
    \/ ~cache.present \/ Len(cache.rows) = 0
    \/ ~click.has_points
    \/ Len(click.points) = 0
    \/ ~click.points[1].has_customdata
    \/ Len(click.points[1].customdata) < 7
    \/ \E j \in {4, 5, 7} : click.points[1].customdata[j].k # "num"

(* C4: update_stats_on_click answers every missing or malformed click payload
   with the guidance text and raises nothing. *)
MalformedClickGuided ==
    LastCallback("update_stats_on_click") /\ Malformed(click_data, cached_data) =>
        /\ callback_error.raised = NoError
        /\ stats_panel.kind = "guidance"

NeverServed ==
    /\ figure = NoFigure
    /\ cached_data = NoCache
    /\ stats_panel = NoPanel
    /\ callback_error = Outcome("none", NoError)

\* what holds of the start-up in every state
StartupState ==
    /\ pc = "serving" =>
            /\ shp_file.readable /\ csv_file.readable
            /\ Len(df_data) > 0
            /\ Ids(df_data) = geojson_data
    /\ ~shp_file.readable =>
            /\ pc \in {"load_shp", "exited"}
            /\ pc = "exited" => diag = "Error loading shapefile"
    /\ shp_file.readable /\ ~csv_file.readable =>
            /\ pc \in {"load_shp", "load_csv", "exited"}
            /\ pc = "exited" => diag = "Error loading CSV file"
    /\ pc \in {"prepare", "crashed"} => Len(df_data) > 0
    /\ pc # "serving" => NeverServed
    /\ pc = "exited" => diag # ""

\* what holds of every step of the start-up
StartupStep ==
    /\ pc = "merge" /\ Range(gdf) \cap Ids(df_csv) = {} =>
            /\ pc' = "exited"
            /\ diag' = "Error: Merge resulted in zero matching regions. Check if IDs match."
    /\ pc = "merge" /\ Range(gdf) \cap Ids(df_csv) # {} => pc' = "prepare"
    /\ pc = "exited" => pc' = "exited"

(* C5: the start-up is fail-fast.  The script serves only after both files
   were read and the merge on the string keys gave at least one row; when a
   file is unreadable or no key of the shapefile equals a key of the CSV, it
   prints the diagnostic and exits; an exited process has served nothing and
   stays exited. *)
StartupFailFast == []StartupState /\ [][StartupStep]_vars

\* both files read, no key in common: the script has exited with the merge diagnostic
StartupFailFastWitness ==
    /\ pc = "exited"
    /\ shp_file.readable /\ csv_file.readable
    /\ diag = "Error: Merge resulted in zero matching regions. Check if IDs match."

(* C6: quantile filtering is monotonic.  When the quantile dropdown goes
   from q1 to q2 >= q1 on the same data and column, the rows kept at q2 are
   among the rows kept at q1, so the kept count does not grow. *)
QuantileMonotonic ==
    [][figure.kind # "none" /\ sel'.quantile >= sel.quantile =>
            /\ Ids(cached_data'.rows) \subseteq Ids(cached_data.rows)
            /\ Len(cached_data'.rows) <= Len(cached_data.rows)]_vars

\* at 0.90 fewer rows are kept than at 0.75, and fewer at 0.75 than at 0.0
QuantileMonotonicWitness ==
    /\ sel.quantile = 90
    /\ Len(cached_data.rows) > 0
    /\ Len(cached_data.rows) < Len(filter_rows(df_data, figure.color, 75))
    /\ Len(filter_rows(df_data, figure.color, 75)) < Len(filter_rows(df_data, figure.color, 0))

CachedTotal == Sum(Values(Column(cached_data.rows, figure.color)))

CachedPercentSum == Sum(Values(Column(cached_data.rows, "percent_of_total")))

(* C7: over the kept rows of a drawn map, percent_of_total sums to 100 percent
   (10000 hundredths) within half a unit of the fourth decimal per row when the
   sum of the values is positive, and is 0 in every row when that sum is <= 0. *)
PercentSumsTo100 ==
    figure.kind = "choropleth" =>
        /\ Len(cached_data.rows) > 0
        /\ CachedTotal > 0 =>
                /\ 2 * (CachedPercentSum - 10000) <= Len(cached_data.rows)
                /\ 2 * (10000 - CachedPercentSum) <= Len(cached_data.rows)
        /\ CachedTotal <= 0 =>
                \A i \in DOMAIN cached_data.rows :
                    cached_data.rows[i]["percent_of_total"].v = 0

\* a positive total whose rounded shares do not sum to exactly 100
PercentSumsTo100Witness ==
    /\ figure.kind = "choropleth"
    /\ CachedTotal > 0
    /\ CachedPercentSum # 10000
    /\ \E i \in DOMAIN cached_data.rows : cached_data.rows[i][figure.color].v < 0

RECURSIVE SumOver(_, _)
\* the sum of f over a finite set
SumOver(S, f) ==
    IF S = {} THEN 0
    ELSE LET x == CHOOSE y \in S : TRUE IN f[x] + SumOver(S \ {x}, f)

\* value of an origin-country column of a record when present and positive, else 0
PositiveValue(record, col) ==
    IF col \in DOMAIN record /\ record[col].k = "num" /\ record[col].v > 0
    THEN record[col].v ELSE 0

PositiveOriginSum(record) ==
    SumOver(CountryColumns, [c \in CountryColumns |-> PositiveValue(record, c)])

SmallOriginSum(record) ==
    SumOver(CountryColumns,
            [c \in CountryColumns |->
                IF PositiveValue(record, c) * 100 > 2 * PositiveOriginSum(record)
                THEN 0 ELSE PositiveValue(record, c)])

(* C8: when a pie is plotted for the clicked region, its slice values sum to
   the sum of the region's present, positive origin-country values, every
   slice is positive, a country has a slice of its own exactly when its share
   of that sum exceeds 2%, and the remaining positive values make up the
   slice "Others (<2%)". *)
PieSlicesSum ==
    stats_panel.pie = "chart" =>
        LET record == df_data[ClickedRow]
            labels == stats_panel.pie_labels
            values == stats_panel.pie_values
        IN /\ Sum(values) = PositiveOriginSum(record)
           /\ Len(labels) = Len(values)
           /\ \A i \in DOMAIN values : values[i] > 0
           /\ \A k \in DOMAIN origin_countries :
                 LET v == PositiveValue(record, origin_countries[k][2])
                 IN (\E i \in DOMAIN labels :
                        labels[i] = origin_countries[k][1] /\ values[i] = v)
                    <=> v * 100 > 2 * PositiveOriginSum(record)
           /\ \A i \in DOMAIN labels :
                 \/ labels[i] = "Others (<2%)" /\ values[i] = SmallOriginSum(record)
                 \/ \E k \in DOMAIN origin_countries : labels[i] = origin_countries[k][1]
           /\ SmallOriginSum(record) > 0 =>
                 \E i \in DOMAIN labels : labels[i] = "Others (<2%)"

\* a pie with a country at exactly 2% folded into "Others (<2%)"
PieSlicesSumWitness ==
    /\ stats_panel.pie = "chart"
    /\ Len(stats_panel.pie_labels) = 2
    /\ stats_panel.pie_labels[2] = "Others (<2%)"
    /\ stats_panel.pie_values = <<49, 1>>

TrendLabels == <<"Before 1980", "1980-1990", "1991-2000", "2001-2010", "2011-2021">>

TrendSource == <<"T1530", "T1531", "T1532", "T1533", "T1534">>

\* the value the trend shows for a period: the record's, 0 when missing or absent
TrendValue(record, col) ==
    IF col \in DOMAIN record /\ record[col].k = "num" THEN record[col].v ELSE 0

(* C9: for every cached record the trend series has exactly 5 entries,
   labelled Before 1980, 1980-1990, 1991-2000, 2001-2010, 2011-2021 in this
   order and taken from T1530..T1534, with 0 for each missing or absent
   value; a plotted trend shows this series of the clicked region. *)
TrendSeriesFixed ==
    /\ \A i \in DOMAIN cached_data.rows :
          LET series == trend_series(cached_data.rows[i])
          IN /\ series.labels = TrendLabels
             /\ Len(series.values) = 5
             /\ \A k \in 1..5 :
                   series.values[k] = TrendValue(cached_data.rows[i], TrendSource[k])
    /\ stats_panel.trend = "chart" =>
          /\ stats_panel.trend_labels = TrendLabels
          /\ stats_panel.trend_values =
                [k \in 1..5 |-> TrendValue(df_data[ClickedRow], TrendSource[k])]

\* a plotted trend of a region with a missing value and an absent column
TrendSeriesFixedWitness ==
    /\ stats_panel.trend = "chart"
    /\ \E k \in 1..5 : TrendSource[k] \notin DOMAIN df_data[ClickedRow]
    /\ \E k \in 1..5 :
          /\ TrendSource[k] \in DOMAIN df_data[ClickedRow]
          /\ df_data[ClickedRow][TrendSource[k]] = NaN

ClickedTrend == [k \in 1..5 |-> TrendValue(df_data[ClickedRow], TrendSource[k])]

RegionFound == stats_panel.kind = "details" /\ stats_panel.trend # "Region data not found in cache for trend chart."

(* C10, as claimed: for a region found in the cache the trend panel reports
   "No time trend data available" when all five values are zero and plots
   the bar chart whenever one of them is not zero. *)
TrendPlottedUnlessAllZero ==
    RegionFound =>
        /\ (\A k \in 1..5 : ClickedTrend[k] = 0) =>
                stats_panel.trend = "No time trend data available for this region."
        /\ (\E k \in 1..5 : ClickedTrend[k] # 0) => stats_panel.trend = "chart"

(* C10, amended: for a region found in the cache the trend panel plots the
   bar chart exactly when one of the five values is greater than zero, and
   reports "No time trend data available" otherwise, so also when all are
   zero. *)
TrendPlottedIffPositive ==
    RegionFound =>
        /\ (\A k \in 1..5 : ClickedTrend[k] <= 0) =>
                stats_panel.trend = "No time trend data available for this region."
        /\ (\E k \in 1..5 : ClickedTrend[k] > 0) => stats_panel.trend = "chart"

\* no chart for a region whose values are negative or zero, not all zero
TrendPlottedIffPositiveWitness ==
    /\ RegionFound
    /\ stats_panel.trend = "No time trend data available for this region."
    /\ \E k \in 1..5 : ClickedTrend[k] < 0

\* the rows of df_data that hold a value in the resolved column
NonMissing == {i \in DOMAIN df_data : notna(df_data[i][resolve_column(sel).data_column])}

\* the largest value of the resolved column
ColumnMax ==
    CHOOSE m \in {df_data[i][resolve_column(sel).data_column].v : i \in NonMissing} :
        \A i \in NonMissing : df_data[i][resolve_column(sel).data_column].v <= m

\* 100 times the value at the selected quantile among the rows that hold a value
Threshold ==
    quantile(Column(SelectRows(df_data, NonMissing), resolve_column(sel).data_column),
             sel.quantile)

(* C11: at every selectable quantile the filter stage of update_map_and_stats
   raises nothing; it returns the placeholder "No Data Available" and an empty
   cache exactly when no row holds a value in the resolved column; when a row
   does, the threshold is a number at most the column maximum and the kept set
   is non-empty and holds every row with the maximum value. *)
NoDataOnlyWhenAllMissing ==
    LastCallback("update_map_and_stats") =>
        /\ callback_error.raised = NoError
        /\ NonMissing = {} =>
                /\ figure = Placeholder("No Data Available")
                /\ cached_data = NoCache
        /\ NonMissing # {} =>
                /\ figure.kind = "choropleth"
                /\ notna(Threshold)
                /\ Threshold.v <= 100 * ColumnMax
                /\ Len(cached_data.rows) > 0
                /\ \A i \in NonMissing :
                      df_data[i][resolve_column(sel).data_column].v = ColumnMax =>
                          df_data[i][shapefile_id_column] \in Ids(cached_data.rows)

\* quantile 0.99 over fewer than 100 values, not all equal: only the maximum is kept
NoDataOnlyWhenAllMissingWitness ==
    /\ LastCallback("update_map_and_stats")
    /\ sel.quantile = 99
    /\ Len(cached_data.rows) = 1
    /\ \E i \in NonMissing :
          df_data[i][resolve_column(sel).data_column].v < ColumnMax
    /\ Threshold.v < 100 * ColumnMax

\* twice the distance between pct hundredths of a percent and the share value / total
TwiceRoundingError(pct, value, total) ==
    IF pct * total >= 10000 * value
    THEN 2 * (pct * total - 10000 * value)
    ELSE 2 * (10000 * value - pct * total)

\* every kept row's percent_of_total is its share of the kept total rounded to
\* 4 decimals, times 100, when the total is positive
PercentIsRoundedShare ==
    \A i \in DOMAIN cached_data.rows :
        LET row == cached_data.rows[i]
        IN CachedTotal > 0 =>
               TwiceRoundingError(row["percent_of_total"].v, row[figure.color].v,
                                  CachedTotal) <= CachedTotal

PercentWithin0And100 ==
    \A i \in DOMAIN cached_data.rows :
        /\ cached_data.rows[i]["percent_of_total"].v >= 0
        /\ cached_data.rows[i]["percent_of_total"].v <= 10000

(* C12, as claimed: after a filter recomputation every kept row's
   percent_of_total is its value divided by the sum of the kept values,
   rounded to 4 decimals and multiplied by 100, and lies between 0 and 100
   whatever the resolved column holds. *)
PercentAlwaysWithin0And100 ==
    figure.kind = "choropleth" => PercentIsRoundedShare /\ PercentWithin0And100

(* C12, amended: after a filter recomputation every kept row's
   percent_of_total is its value divided by the sum of the kept values,
   rounded to 4 decimals and multiplied by 100, when that sum is positive, and
   0 when it is not; it lies between 0 and 100 when no kept value is
   negative. *)
PercentWithin0And100IfNonNegative ==
    figure.kind = "choropleth" =>
        /\ PercentIsRoundedShare
        /\ CachedTotal <= 0 =>
                \A i \in DOMAIN cached_data.rows :
                    cached_data.rows[i]["percent_of_total"].v = 0
        /\ (\A i \in DOMAIN cached_data.rows : cached_data.rows[i][figure.color].v >= 0)
                => PercentWithin0And100

\* a positive total with a negative value: a share below 0 and a share above 100
PercentWithin0And100IfNonNegativeWitness ==
    /\ figure.kind = "choropleth"
    /\ CachedTotal > 0
    /\ \E i \in DOMAIN cached_data.rows : cached_data.rows[i]["percent_of_total"].v < 0
    /\ \E i \in DOMAIN cached_data.rows : cached_data.rows[i]["percent_of_total"].v > 10000

NotFoundTexts ==
    {"Region data not found in cache for pie chart.",
     "Region data not found in cache for trend chart."}

(* C13: the map and the cache stay consistent over every sequence of dropdown
   changes and clicks.  A run of update_map_and_stats that returns leaves a
   placeholder or a drawn map; a placeholder, or no map yet, goes with an
   empty cache, and the identifiers of the regions drawn on a map are exactly
   the ADAUID values of the cached records; so no click on a region of the
   displayed map has yielded "Region data not found in cache". *)
MapCacheConsistent ==
    /\ LastCallback("update_map_and_stats") /\ callback_error.raised = NoError =>
            figure.kind \in {"placeholder", "choropleth"}
    /\ figure.kind \in {"none", "placeholder"} => cached_data = NoCache
    /\ figure.kind = "choropleth" =>
            /\ cached_data.present
            /\ Len(cached_data.rows) = Len(figure.locations)
            /\ Range(figure.locations) = Ids(cached_data.rows)
    /\ stats_panel.pie \notin NotFoundTexts
    /\ stats_panel.trend \notin NotFoundTexts
    /\ /\ LastCallback("update_stats_on_click")
       /\ callback_error.raised = NoError
       /\ stats_panel.kind = "details"
       => click_data.points[1].location \in Ids(cached_data.rows)

\* the filter dropped a region, and a click on a region still drawn found its record
MapCacheConsistentWitness ==
    /\ LastCallback("update_stats_on_click")
    /\ callback_error.raised = NoError
    /\ stats_panel.kind = "details"
    /\ sel.quantile > 0
    /\ Len(cached_data.rows) < Len(df_data)
    /\ click_data.points[1].location \in Range(figure.locations)
====
